---- MODULE Spec2Model ----
(***************************************************************************)
(* Event Sourcing / CQRS example (event-sourcing-CQRS): EventStore,        *)
(* SnapshotManager, BankAccount aggregate, EventPublisher, Projector,      *)
(* ReadModelDB and AggregateCache, as one state machine.                   *)
(*                                                                         *)
(* JavaScript objects that are shared by reference are kept in a heap      *)
(* (heap) and named by object ids, so that two holders of one object see   *)
(* each other's in-place writes.  Date.now() timestamps are left out: no   *)
(* code path reads them back.                                              *)
(***************************************************************************)
EXTENDS Integers, Sequences, FiniteSets, TLC

VARIABLES
  streams,     \* EventStore.streams: Map streamId -> array of events
  snapshots,   \* SnapshotManager.snapshots: Map streamId -> {state, lastSeqNum}
  heap,        \* the state objects {balance, status}, by object id
  accounts,    \* the BankAccount instances: {streamId, state (object id), lastSeq}
  pending,     \* the calls suspended at an await, in the order they resume
  channel,     \* EventPublisher.channel: "null" until init()
  published,   \* the messages handed to channel.publish, in order
  acked,       \* how many of them the Projector has acknowledged
  unacked,     \* how many were delivered and are held unacknowledged
  db,          \* ReadModelDB.db: Map id -> {balance, status, lastProcessedSeq}
  ret,         \* the most recent call: the error thrown and the value returned
  config,      \* config.SNAPSHOT_THRESHOLD
  cache,       \* AggregateCache.cache: Map streamId -> BankAccount instance
  timers,      \* the eviction timers set and not yet run
  clock        \* the time, in ticks

vars == <<streams, snapshots, heap, accounts, pending, channel, published,
          acked, unacked, db, ret, config, cache, timers, clock>>

cacheVars == <<cache, timers, clock>>

----------------------------------------------------------------------------
(* Bounds of the model *)

\* Events stored over all streams together.
MaxEvents == 3
\* Commands suspended at the publish await, over all instances together.
MaxInFlight == 1
\* The snapshot interval N of config.SNAPSHOT_THRESHOLD used by Init.
SnapshotEvery == 2
\* Largest seqNum handed directly to ReadModelDB.applyUpdate.
MaxSeqArg == 2
\* Messages handed directly to EventPublisher.publish.
MaxPublished == 3
\* The cache's time to live (5 minutes), in ticks of the clock.
TTL == 2
\* The clock stops here.
MaxTime == 3
MaxDeliveries == 4

\* The streams and the BankAccount instances, in the order they come into use.
StreamOrder == <<"s1", "s2">>
AccountOrder == <<"a1", "a2">>
StreamIds == {StreamOrder[i] : i \in 1 .. Len(StreamOrder)}
AccountIds == {AccountOrder[i] : i \in 1 .. Len(AccountOrder)}
Amounts == {1}
MaxAmount == CHOOSE n \in Amounts : \A m \in Amounts : m <= n
EventTypes == {"AccountOpened", "MoneyDeposited", "MoneyWithdrawn"}
\* An event type none of the switch statements has a case for.
OtherType == "Other"
\* An optional argument: <<>> when it is left undefined, <<v>> when it is v.
Undefined == <<>>
Given(v) == <<v>>

----------------------------------------------------------------------------
(* Values *)

\* BankAccount constructor: this.state = { balance: 0, status: "Closed" }
InitialState == [balance |-> 0, status |-> "Closed"]

\* A data payload that is null/undefined: reading a property of it throws.
NoData == [missing |-> TRUE]

OpenedData(amount) == [initialAmount |-> amount]
AmountData(amount) == [amount |-> amount]

NoStream == [has |-> FALSE, events |-> <<>>]
NoSnapshot == [has |-> FALSE, state |-> 0, lastSeqNum |-> 0]
NoAccount == [live |-> FALSE, streamId |-> "", state |-> 0, lastSeq |-> 0]
NoRecord == [has |-> FALSE, balance |-> 0, status |-> "Closed", lastProcessedSeq |-> 0]
\* A cache entry; setAt is the time of the set call that stored it, which the
\* Map does not hold.
NoEntry == [has |-> FALSE, aggregate |-> "", setAt |-> 0]
\* A call suspended at an await: the instance it runs on and what it does next.
Suspended(a, then, seqNum) == [account |-> a, then |-> then, seqNum |-> seqNum]

\* One object id for every holder there can be: an instance or a stored snapshot.
\* and one more for the copy saveSnapshot makes while the old snapshot is stored.
ObjIds == 1 .. (Cardinality(AccountIds) + Cardinality(StreamIds) + 1)

Last(seq) == seq[Len(seq)]

\* A reverse that leaves the order as it is.
Reverse_Identity(seq) == seq

\* [...array].reverse()
Reverse(seq) == [i \in 1 .. Len(seq) |-> seq[Len(seq) + 1 - i]]

\* Array.prototype.filter
FilterSeq(seq, Keep(_)) == SelectSeq(seq, Keep)

\* A slice that keeps one element more than asked for.
SliceTo_OneMore(seq, n) == SubSeq(seq, 1, IF n + 1 < Len(seq) THEN n + 1 ELSE Len(seq))

\* Array.prototype.slice(0, n)
SliceTo(seq, n) == SubSeq(seq, 1, IF n < Len(seq) THEN n ELSE Len(seq))

\* x is the first element of `order` that is not in `used`, or is in it already.
NextUnused(order, used, x) ==
  \/ x \in used
  \/ \E i \in 1 .. Len(order) :
       /\ order[i] = x
       /\ \A j \in 1 .. (i - 1) : order[j] \in used

IsPrefix(s, t) == Len(s) <= Len(t) /\ SubSeq(t, 1, Len(s)) = s

----------------------------------------------------------------------------
(* EventStore *)

\* this.streams.get(streamId) || []
AllEvents(strs, streamId) == strs[streamId].events

\* getStream(streamId, {startingFromSeqNum, direction, maxCount})
GetStream(strs, streamId, startingFromSeqNum, direction, maxCount) ==
  LET allEvents == AllEvents(strs, streamId)
      FromStart(e) == e.seqNum >= startingFromSeqNum[1]
      UpTo(e) == e.seqNum <= startingFromSeqNum[1]
      result ==
        IF direction = "forwards"
        THEN IF startingFromSeqNum # Undefined
             THEN FilterSeq(allEvents, FromStart)
             ELSE allEvents
        ELSE IF startingFromSeqNum # Undefined
             THEN FilterSeq(Reverse(allEvents), UpTo)
             ELSE Reverse(allEvents)
  IN IF maxCount # Undefined THEN SliceTo(result, maxCount[1]) ELSE result

\* A store whose empty stream is at version 1.
CurrentVersion_FromOne(strs, streamId) == Len(AllEvents(strs, streamId)) + 1

\* A store with one version for all its streams: the number of events it holds.
CurrentVersion_Global(strs, streamId) ==
  Len(AllEvents(strs, StreamOrder[1])) + Len(AllEvents(strs, StreamOrder[2]))

\* save: lastEvents = getStream(backwards, maxCount 1); head seqNum or 0
CurrentVersion(strs, streamId) ==
  LET lastEvents == GetStream(strs, streamId, Undefined, "backwards", Given(1))
  IN IF Len(lastEvents) > 0 THEN lastEvents[1].seqNum ELSE 0

\* A save that numbers the new event with the version it found.
NextSeq_NoIncrement(currentVersion) == currentVersion

\* save: nextSeq = currentVersion + 1
NextSeq(currentVersion) == currentVersion + 1

\* A guard that refuses only an expectedSeq ahead of the store.
Conflicts_OnlyAhead(expectedSeq, currentVersion) ==
  expectedSeq # Undefined /\ currentVersion < expectedSeq[1]

\* save: the optimistic concurrency guard
Conflicts(expectedSeq, currentVersion) ==
  expectedSeq # Undefined /\ currentVersion # expectedSeq[1]

\* save: `if (!this.streams.has(streamId)) this.streams.set(streamId, [])`
EnsureStream(strs, streamId) ==
  IF strs[streamId].has THEN strs
  ELSE [strs EXCEPT ![streamId] = [has |-> TRUE, events |-> <<>>]]

NewEvent(streamId, eventType, data, nextSeq) ==
  [streamId |-> streamId, type |-> eventType, data |-> data, seqNum |-> nextSeq]

\* A save that appends the event before it checks the version.
Save_AppendBeforeCheck(strs, streamId, eventType, data, expectedSeq) ==
  LET ensured == EnsureStream(strs, streamId)
      currentVersion == CurrentVersion(ensured, streamId)
      newEvent == NewEvent(streamId, eventType, data, NextSeq(currentVersion))
  IN [streams |-> [ensured EXCEPT ![streamId].events = Append(@, newEvent)],
      threw |-> Conflicts(expectedSeq, currentVersion), event |-> newEvent]

\* A save whose reverse read of the stream reverses the stored array itself.
Save_ReverseInPlace(strs, streamId, eventType, data, expectedSeq) ==
  LET ensured == EnsureStream(strs, streamId)
      reversed == [ensured EXCEPT ![streamId].events = Reverse(@)]
      currentVersion == CurrentVersion(ensured, streamId)
      newEvent == NewEvent(streamId, eventType, data, NextSeq(currentVersion))
  IN IF Conflicts(expectedSeq, currentVersion)
     THEN [streams |-> reversed, threw |-> TRUE, event |-> newEvent]
     ELSE [streams |-> [reversed EXCEPT ![streamId].events = Append(@, newEvent)],
           threw |-> FALSE, event |-> newEvent]

\* save(streamId, eventType, data, expectedSeq): the store after the call, the
\* event returned and whether the call threw the Concurrency Conflict error.
Save(strs, streamId, eventType, data, expectedSeq) ==
  LET ensured == EnsureStream(strs, streamId)
      currentVersion == CurrentVersion(ensured, streamId)
      newEvent == NewEvent(streamId, eventType, data, NextSeq(currentVersion))
  IN IF Conflicts(expectedSeq, currentVersion)
     THEN [streams |-> ensured, threw |-> TRUE, event |-> newEvent]
     ELSE [streams |-> [ensured EXCEPT ![streamId].events = Append(@, newEvent)],
           threw |-> FALSE, event |-> newEvent]

RECURSIVE SumLen(_, _)
SumLen(strs, S) ==
  IF S = {} THEN 0
  ELSE LET s == CHOOSE x \in S : TRUE
       IN Len(strs[s].events) + SumLen(strs, S \ {s})

\* The number of events stored, over all streams.
TotalEvents(strs) == SumLen(strs, StreamIds)

----------------------------------------------------------------------------
(* The heap of state objects *)

\* The objects some instance or some stored snapshot refers to.
Referenced(accs, snaps) ==
  {accs[a].state : a \in {x \in AccountIds : accs[x].live}}
    \cup {snaps[s].state : s \in {x \in StreamIds : snaps[x].has}}

\* A fresh object: `{...}` in the constructor, structuredClone in saveSnapshot.
NewObject(accs, snaps) ==
  CHOOSE o \in ObjIds \ Referenced(accs, snaps) :
    \A p \in ObjIds \ Referenced(accs, snaps) : o <= p

\* The references held, in a fixed order of the holders: the instances, then
\* the stored snapshots (0 where the holder has none).
References(accs, snaps) ==
  [i \in 1 .. Len(AccountOrder) |-> accs[AccountOrder[i]].state]
    \o [i \in 1 .. Len(StreamOrder) |-> snaps[StreamOrder[i]].state]

\* Object identity matters only up to renaming: objects are numbered in the
\* order References first reaches them.
CanonicalId(refs, o) ==
  LET first == CHOOSE i \in 1 .. Len(refs) :
                 refs[i] = o /\ \A j \in 1 .. Len(refs) : refs[j] = o => i <= j
  IN Cardinality({refs[j] : j \in 1 .. first} \ {0})

\* Garbage collection and renumbering: an object nothing refers to is gone.
Collect(h, accs, snaps) ==
  LET refs == References(accs, snaps)
      Id(o) == IF o = 0 THEN 0 ELSE CanonicalId(refs, o)
      live == Referenced(accs, snaps)
  IN [heap |-> [n \in ObjIds |->
                  IF \E o \in live : Id(o) = n
                  THEN h[CHOOSE o \in live : Id(o) = n]
                  ELSE InitialState],
      accounts |-> [a \in AccountIds |-> [accs[a] EXCEPT !.state = Id(@)]],
      snapshots |-> [s \in StreamIds |-> [snaps[s] EXCEPT !.state = Id(@)]]]

\* The balances the model follows: those no larger in size than the largest
\* amounts MaxEvents events can add up to.
BalanceCap == MaxEvents * MaxAmount

WithinCap(h) ==
  \A o \in ObjIds : h[o].balance <= BalanceCap /\ h[o].balance >= -BalanceCap

----------------------------------------------------------------------------
(* SnapshotManager *)

\* getSnapshot(streamId): this.snapshots.get(streamId) || null
GetSnapshot(snaps, streamId) == snaps[streamId]

\* saveSnapshot: stateCopy = structuredClone(state), a new object holding a
\* copy of the fields of `state`.
CloneInto(h, copy, state) == [h EXCEPT ![copy] = h[state]]

\* saveSnapshot: this.snapshots.set(streamId, {state: stateCopy, lastSeqNum})
StoredSnapshot(copy, state, lastSeqNum) ==
  [has |-> TRUE, state |-> copy, lastSeqNum |-> lastSeqNum]

\* saveSnapshot(streamId, state, lastSeqNum), `state` an object id
SaveSnapshot(snaps, h, accs, streamId, state, lastSeqNum) ==
  LET copy == NewObject(accs, snaps)
  IN [snapshots |-> [snaps EXCEPT ![streamId] = StoredSnapshot(copy, state, lastSeqNum)],
      heap |-> CloneInto(h, copy, state)]

----------------------------------------------------------------------------
(* BankAccount *)

\* applyEventToState(event), on the fields of the state object
ApplyEventToState(state, event) ==
  CASE event.type = "AccountOpened" ->
         [state EXCEPT !.status = "Active", !.balance = event.data.initialAmount]
    [] event.type = "MoneyDeposited" ->
         [state EXCEPT !.balance = @ + event.data.amount]
    [] event.type = "MoneyWithdrawn" ->
         [state EXCEPT !.balance = @ - event.data.amount]
    [] OTHER -> state

\* load(): `for (const event of eventsToApply) this.applyEventToState(event)`
RECURSIVE ApplyAll(_, _)
ApplyAll(state, events) ==
  IF events = <<>> THEN state
  ELSE ApplyAll(ApplyEventToState(state, Head(events)), Tail(events))

\* load(), snapshot hit: the object this.state names afterwards
RestoredState(acc, snapshot) == snapshot.state

\* load(), snapshot hit: the delta events
DeltaEvents(strs, streamId, snapshot) ==
  GetStream(strs, streamId, Given(snapshot.lastSeqNum + 1), "forwards", Undefined)

\* load(), snapshot miss: the whole history
FullHistory(strs, streamId) ==
  GetStream(strs, streamId, Undefined, "forwards", Undefined)

\* A load that forgets the snapshot's lastSeqNum when there is no delta.
LastSeqAfter_ZeroWithoutDelta(eventsToApply, snapshot) ==
  IF Len(eventsToApply) > 0 THEN Last(eventsToApply).seqNum ELSE 0

\* load(): lastSeq after the fold, from the last applied event, or from the
\* snapshot when nothing was applied; a new instance keeps its 0.
LastSeqAfter(eventsToApply, snapshot) ==
  IF Len(eventsToApply) > 0 THEN Last(eventsToApply).seqNum
  ELSE IF snapshot.has THEN snapshot.lastSeqNum ELSE 0

\* load() of instance acc: the instance and the heap afterwards
Load(strs, snaps, h, acc) ==
  LET snapshot == GetSnapshot(snaps, acc.streamId)
      state == IF snapshot.has THEN RestoredState(acc, snapshot) ELSE acc.state
      eventsToApply ==
        IF snapshot.has THEN DeltaEvents(strs, acc.streamId, snapshot)
        ELSE FullHistory(strs, acc.streamId)
      lastSeq == LastSeqAfter(eventsToApply, snapshot)
  IN [account |-> [acc EXCEPT !.state = state, !.lastSeq = lastSeq],
      heap |-> [h EXCEPT ![state] = ApplyAll(h[state], eventsToApply)]]

\* A command that leaves expectedSeq out of its call of save.
ExpectedSeqOf_Omitted(acc) == Undefined

\* The commands pass this.lastSeq to save as expectedSeq.
ExpectedSeqOf(acc) == Given(acc.lastSeq)

\* An updateSnapshot that saves a snapshot after every event.
CrossesThreshold_Every(lastSeq, threshold) == lastSeq > 0

\* updateSnapshot(): the threshold test
CrossesThreshold(lastSeq, threshold) == lastSeq > 0 /\ lastSeq % threshold = 0

\* The commands: event type, payload and the validation error each raises.
CommandNames == {"openAccount", "deposit", "withdraw"}

EventTypeOf(cmd) ==
  CASE cmd = "openAccount" -> "AccountOpened"
    [] cmd = "deposit" -> "MoneyDeposited"
    [] cmd = "withdraw" -> "MoneyWithdrawn"

\* { initialAmount: amount } for AccountOpened, { amount } for the others
DataFor(cmdOrType, amount) ==
  IF cmdOrType \in {"openAccount", "AccountOpened"}
  THEN OpenedData(amount) ELSE AmountData(amount)

\* A withdraw that does not compare the amount with the balance.
ValidationError_NoFundsCheck(cmd, state, amount) ==
  CASE cmd = "openAccount" ->
         IF state.status = "Active" THEN "Already active" ELSE ""
    [] OTHER ->
         IF state.status # "Active" THEN "Account closed" ELSE ""

\* An openAccount that does not look at the status.
ValidationError_ReopenAllowed(cmd, state, amount) ==
  CASE cmd = "openAccount" -> ""
    [] cmd = "deposit" ->
         IF state.status # "Active" THEN "Account closed" ELSE ""
    [] cmd = "withdraw" ->
         IF state.status # "Active" THEN "Account closed"
         ELSE IF state.balance < amount THEN "Insufficient funds" ELSE ""

\* Step 1 of a command: "" when the business rule holds, else the message thrown.
ValidationError(cmd, state, amount) ==
  CASE cmd = "openAccount" ->
         IF state.status = "Active" THEN "Already active" ELSE ""
    [] cmd = "deposit" ->
         IF state.status # "Active" THEN "Account closed" ELSE ""
    [] cmd = "withdraw" ->
         IF state.status # "Active" THEN "Account closed"
         ELSE IF state.balance < amount THEN "Insufficient funds" ELSE ""

----------------------------------------------------------------------------
(* EventPublisher and the broker boundary *)

\* publish: `if (!this.channel) throw new Error("Publisher not initialized")`
PublishRejects_Never(ch) == FALSE

PublishRejects(ch) == ch = "null"

\* A publisher that puts the number of the event to come on the message.
JsonStringify_NextSeq(event) ==
  <<event.streamId, event.type, event.data, event.seqNum + 1>>

\* publish: Buffer.from(JSON.stringify(event)), the message put on the exchange
JsonStringify(event) == <<event.streamId, event.type, event.data, event.seqNum>>

\* Projector: JSON.parse(msg.content.toString())
JsonParse(msg) ==
  [streamId |-> msg[1], type |-> msg[2], data |-> msg[3], seqNum |-> msg[4]]

\* A broker that delivers while fewer than two messages are unacknowledged.
PrefetchAllows_Two(outstanding) == outstanding < 2

\* Projector: channel.prefetch(1).  The broker delivers the next message of the
\* queue only while fewer than one delivered message is unacknowledged.
PrefetchAllows(outstanding) == outstanding < 1

\* A callback that acknowledges whether or not applyUpdate threw.
Acks_Always(threw) == TRUE

\* Projector: channel.ack(msg) is the last statement of the try block, so it
\* runs only when applyUpdate returned.
Acks(threw) == ~threw

----------------------------------------------------------------------------
(* ReadModelDB *)

\* getAccount(id): this.db.get(id) || null
GetAccount(d, id) == d[id]

\* A guard that lets the event last processed through again.
AlreadyProcessed_Strict(seqNum, record) == seqNum < record.lastProcessedSeq

\* A guard that skips only the event last processed, and lets older ones through.
AlreadyProcessed_OnlySame(seqNum, record) == seqNum = record.lastProcessedSeq

\* No guard at all.
AlreadyProcessed_Never(seqNum, record) == FALSE

\* applyUpdate: the idempotency guard
AlreadyProcessed(seqNum, record) == seqNum <= record.lastProcessedSeq

\* applyUpdate: the fields the switch writes before it reads a property of a
\* null payload and throws
PartialProjection(record, eventType) ==
  IF eventType = "AccountOpened" THEN [record EXCEPT !.status = "Active"]
  ELSE record

\* A switch whose default case clears the balance.
Projection_DefaultClears(record, eventType, data) ==
  CASE eventType = "AccountOpened" ->
         [record EXCEPT !.status = "Active", !.balance = data.initialAmount]
    [] eventType = "MoneyDeposited" -> [record EXCEPT !.balance = @ + data.amount]
    [] eventType = "MoneyWithdrawn" -> [record EXCEPT !.balance = @ - data.amount]
    [] OTHER -> [record EXCEPT !.balance = 0]

\* applyUpdate: the switch
Projection(record, eventType, data) ==
  CASE eventType = "AccountOpened" ->
         [record EXCEPT !.status = "Active", !.balance = data.initialAmount]
    [] eventType = "MoneyDeposited" -> [record EXCEPT !.balance = @ + data.amount]
    [] eventType = "MoneyWithdrawn" -> [record EXCEPT !.balance = @ - data.amount]
    [] OTHER -> record

\* applyUpdate(id, eventType, data, seqNum): the map afterwards, whether the
\* call threw, and whether it returned at the guard ("Skipping" on the console).  `record` is the stored object itself when the id has one, so
\* what the switch wrote before throwing stays in the map; a record made for a
\* new id is lost with the exception.
ApplyUpdate(d, id, eventType, data, seqNum) ==
  LET record == d[id]
      throws == data = NoData /\ eventType \in EventTypes
  IN IF AlreadyProcessed(seqNum, record)
     THEN [db |-> d, threw |-> FALSE, skipped |-> TRUE]
     ELSE IF throws
     THEN [db |-> IF record.has
                  THEN [d EXCEPT ![id] = PartialProjection(record, eventType)]
                  ELSE d,
           threw |-> TRUE, skipped |-> FALSE]
     ELSE [db |-> [d EXCEPT ![id] =
                     [Projection(record, eventType, data)
                        EXCEPT !.lastProcessedSeq = seqNum, !.has = TRUE]],
           threw |-> FALSE, skipped |-> FALSE]

----------------------------------------------------------------------------
(* AggregateCache *)

\* get(streamId): this.cache.get(streamId), undefined when there is none
CacheGet(c, streamId) ==
  IF c[streamId].has THEN Given(c[streamId].aggregate) ELSE Undefined

\* A timer that runs one tick late.
TimerDue_Late(now) == now + TTL + 1

\* set: setTimeout(..., 5 * 60 * 1000), the time the timer runs
TimerDue(now) == now + TTL

\* set(streamId, aggregate): the cache and the timers afterwards
CacheSet(c, tm, now, streamId, aggregate) ==
  [cache |-> [c EXCEPT ![streamId] =
                [has |-> TRUE, aggregate |-> aggregate, setAt |-> now]],
   timers |-> tm \cup {[streamId |-> streamId, due |-> TimerDue(now)]}]

\* The timer callback: this.cache.delete(streamId)
CacheDelete(c, streamId) == [c EXCEPT ![streamId] = NoEntry]

----------------------------------------------------------------------------
(* The state machine *)

\* How the most recent call ended: the message of the error it threw ("" when
\* it threw none) and, for a direct call of the store, the value returned.
Ret(outcome, value) == [outcome |-> outcome, value |-> value]

InitWith(threshold) ==
  /\ streams = [s \in StreamIds |-> NoStream]
  /\ snapshots = [s \in StreamIds |-> NoSnapshot]
  /\ heap = [o \in ObjIds |-> InitialState]
  /\ accounts = [a \in AccountIds |-> NoAccount]
  /\ pending = <<>>
  /\ channel = "null"
  /\ published = <<>>
  /\ acked = 0
  /\ unacked = 0
  /\ db = [s \in StreamIds |-> NoRecord]
  /\ ret = Ret("", <<>>)
  /\ config = [SNAPSHOT_THRESHOLD |-> threshold]
  /\ cache = [s \in StreamIds |-> NoEntry]
  /\ timers = {}
  /\ clock = 0

Init == InitWith(SnapshotEvery)

\* EventPublisher.init(): the channel is open afterwards.
PublisherInit ==
  /\ channel = "null"
  /\ channel' = "open"
  /\ ret' = Ret("", <<>>)
  /\ UNCHANGED <<streams, snapshots, heap, accounts, pending, published, acked,
                 unacked, db, config>>
  /\ UNCHANGED cacheVars

\* new BankAccount(streamId)
NewBankAccount(a, streamId) ==
  /\ ~accounts[a].live
  /\ NextUnused(AccountOrder, {x \in AccountIds : accounts[x].live}, a)
  /\ NextUnused(StreamOrder, {accounts[x].streamId : x \in AccountIds}, streamId)
  /\ LET state == NewObject(accounts, snapshots)
         accs == [accounts EXCEPT ![a] =
                    [live |-> TRUE, streamId |-> streamId,
                     state |-> state, lastSeq |-> 0]]
         c == Collect([heap EXCEPT ![state] = InitialState], accs, snapshots)
     IN /\ accounts' = c.accounts
        /\ heap' = c.heap
        /\ snapshots' = c.snapshots
  /\ ret' = Ret("", <<>>)
  /\ UNCHANGED <<streams, pending, channel, published, acked, unacked, db, config>>
  /\ UNCHANGED cacheVars

\* account.load(): the body has no await, so it runs in one step.
LoadAccount(a) ==
  /\ accounts[a].live
  /\ LET r == Load(streams, snapshots, heap, accounts[a])
         accs == [accounts EXCEPT ![a] = r.account]
         c == Collect(r.heap, accs, snapshots)
     IN /\ WithinCap(r.heap)
        /\ accounts' = c.accounts
        /\ heap' = c.heap
        /\ snapshots' = c.snapshots
  /\ ret' = Ret("", <<>>)
  /\ UNCHANGED <<streams, pending, channel, published, acked, unacked, db, config>>
  /\ UNCHANGED cacheVars

\* openAccount / deposit / withdraw up to `await eventPublisher.publish(event)`:
\* validate, save, apply, advance lastSeq, publish.  A publish on a channel
\* that is not open rejects, and the command ends there with that error.
RunCommand(a, cmd, amount, maxEvents, maxInFlight) ==
  /\ accounts[a].live
  /\ LET acc == accounts[a]
         invalid == ValidationError(cmd, heap[acc.state], amount)
         saved == Save(streams, acc.streamId, EventTypeOf(cmd),
                       DataFor(cmd, amount), ExpectedSeqOf(acc))
         event == saved.event
     IN IF invalid # ""
        THEN /\ ret' = Ret(invalid, <<>>)
             /\ UNCHANGED <<streams, heap, accounts, pending, published>>
        ELSE IF saved.threw
        THEN /\ streams' = saved.streams
             /\ ret' = Ret("Concurrency Conflict", <<>>)
             /\ UNCHANGED <<heap, accounts, pending, published>>
        ELSE /\ TotalEvents(streams) < maxEvents
             /\ streams' = saved.streams
             /\ heap' = [heap EXCEPT ![acc.state] = ApplyEventToState(@, event)]
             /\ accounts' = [accounts EXCEPT ![a].lastSeq = event.seqNum]
             /\ IF PublishRejects(channel)
                THEN /\ ret' = Ret("Publisher not initialized", <<>>)
                     /\ UNCHANGED <<pending, published>>
                ELSE /\ Len(pending) < maxInFlight
                     /\ published' = Append(published, JsonStringify(event))
                     /\ pending' = Append(pending, Suspended(a, "updateSnapshot",
                                                            event.seqNum))
                     /\ ret' = Ret("", <<>>)
  /\ UNCHANGED <<snapshots, channel, acked, unacked, db, config>>
  /\ UNCHANGED cacheVars

Command(a, cmd, amount) == RunCommand(a, cmd, amount, MaxEvents, MaxInFlight)

\* The rest of a command after the await: this.updateSnapshot().  The
\* continuations run in the order their commands were suspended.
ResumeCommand ==
  /\ pending # <<>>
  /\ Head(pending).then = "updateSnapshot"
  /\ LET a == Head(pending).account
         acc == accounts[a]
         s == SaveSnapshot(snapshots, heap, accounts, acc.streamId, acc.state,
                           acc.lastSeq)
         c == Collect(s.heap, accounts, s.snapshots)
     IN /\ IF CrossesThreshold(acc.lastSeq, config.SNAPSHOT_THRESHOLD)
           THEN /\ snapshots' = c.snapshots
                /\ heap' = c.heap
                /\ accounts' = c.accounts
           ELSE UNCHANGED <<snapshots, heap, accounts>>
        /\ pending' = Tail(pending)
  /\ ret' = Ret("", <<>>)
  /\ UNCHANGED <<streams, channel, published, acked, unacked, db, config>>
  /\ UNCHANGED cacheVars

\* The message the broker delivers next: the queue is first in, first out,
\* and a message that was delivered is not delivered again while it is held.
NextDelivery == published[acked + unacked + 1]

\* Projector: the consume callback on the next message of the queue.  The
\* broker delivers it only when the prefetch limit allows; the callback runs
\* from the event loop, so no continuation is waiting.  The catch block logs
\* and returns: the message is neither acknowledged nor rejected.
Consume ==
  /\ pending = <<>>
  /\ PrefetchAllows(unacked)
  /\ acked + unacked < Len(published)
  /\ LET event == JsonParse(NextDelivery)
         r == ApplyUpdate(db, event.streamId, event.type, event.data, event.seqNum)
     IN /\ db' = r.db
        /\ IF Acks(r.threw)
           THEN /\ unacked' = unacked
                /\ acked' = acked + 1
           ELSE /\ unacked' = unacked + 1
                /\ acked' = acked
        /\ ret' = Ret("", <<>>)
  /\ UNCHANGED <<streams, snapshots, heap, accounts, pending, channel, published,
                 config>>
  /\ UNCHANGED cacheVars

Next ==
  \/ PublisherInit
  \/ \E a \in AccountIds, s \in StreamIds : NewBankAccount(a, s)
  \/ \E a \in AccountIds : LoadAccount(a)
  \/ \E a \in AccountIds, cmd \in CommandNames, amount \in Amounts :
       Command(a, cmd, amount)
  \/ ResumeCommand
  \/ Consume

Spec == Init /\ [][Next]_vars

\* The event loop runs what is ready to run: init() completes, a continuation
\* whose await has resolved resumes, a delivered message reaches the callback.
\* Nothing obliges a caller to issue a command.
LiveSpec ==
  Spec /\ WF_vars(PublisherInit) /\ WF_vars(ResumeCommand) /\ WF_vars(Consume)

\* A caller that does not await a command before it issues the next one on
\* the same instance: the second command runs up to its own await while the
\* first is still suspended at `await eventPublisher.publish(event)`.
OverlappingCommand(a, cmd, amount) ==
  RunCommand(a, cmd, amount, MaxEvents, MaxInFlight + 1)

NextInterleaved ==
  \/ PublisherInit
  \/ \E a \in AccountIds, s \in StreamIds : NewBankAccount(a, s)
  \/ \E a \in AccountIds : LoadAccount(a)
  \/ \E a \in AccountIds, cmd \in CommandNames, amount \in Amounts :
       OverlappingCommand(a, cmd, amount)
  \/ ResumeCommand
  \/ Consume

SpecInterleaved == Init /\ [][NextInterleaved]_vars

\* The write side alone, with streams long enough for a balance to be drawn
\* down after a snapshot: the commands, load() and the snapshot continuation.
LongerCommand(a, cmd, amount) ==
  RunCommand(a, cmd, amount, MaxEvents + 2, MaxInFlight)

NextLedger ==
  \/ PublisherInit
  \/ \E a \in AccountIds, s \in StreamIds : NewBankAccount(a, s)
  \/ \E a \in AccountIds : LoadAccount(a)
  \/ \E a \in AccountIds, cmd \in CommandNames, amount \in Amounts :
       LongerCommand(a, cmd, amount)
  \/ ResumeCommand

SpecLedger == Init /\ [][NextLedger]_vars

----------------------------------------------------------------------------
(* The aggregate cache in front of the aggregates *)

\* Time passes.  A timer runs when it is due, before the clock moves on: a
\* tick is half the time to live, far longer than a timer can be late.
Tick ==
  /\ clock < MaxTime
  /\ \A t \in timers : t.due > clock
  /\ clock' = clock + 1
  /\ UNCHANGED <<streams, snapshots, heap, accounts, pending, channel, published,
                 acked, unacked, db, ret, config, cache, timers>>

\* The callback of an eviction timer, run from the event loop when it is due.
Evict(t) ==
  /\ pending = <<>>
  /\ t \in timers
  /\ t.due <= clock
  /\ cache' = CacheDelete(cache, t.streamId)
  /\ timers' = timers \ {t}
  /\ UNCHANGED <<streams, snapshots, heap, accounts, pending, channel, published,
                 acked, unacked, db, ret, config, clock>>

\* getCachedAccount(userId) up to `await account.load()`: a hit returns the
\* cached instance; a miss constructs an instance and loads it (load has no
\* await of its own), and the call is suspended before aggregateCache.set.
LoadThroughCache(streamId, maxInFlight) ==
  IF CacheGet(cache, streamId) # Undefined
  THEN /\ ret' = Ret("", CacheGet(cache, streamId))
       /\ UNCHANGED <<streams, snapshots, heap, accounts, pending, channel,
                      published, acked, unacked, db, config, cache, timers, clock>>
  ELSE /\ NextUnused(StreamOrder, {accounts[x].streamId : x \in AccountIds},
                     streamId)
       /\ Len(pending) < maxInFlight
       /\ \E a \in AccountIds :
            /\ ~accounts[a].live
            /\ NextUnused(AccountOrder, {x \in AccountIds : accounts[x].live}, a)
            /\ LET state == NewObject(accounts, snapshots)
                   account == [live |-> TRUE, streamId |-> streamId,
                               state |-> state, lastSeq |-> 0]
                   r == Load(streams, snapshots,
                             [heap EXCEPT ![state] = InitialState], account)
                   accs == [accounts EXCEPT ![a] = r.account]
                   c == Collect(r.heap, accs, snapshots)
               IN /\ accounts' = c.accounts
                  /\ heap' = c.heap
                  /\ snapshots' = c.snapshots
            /\ pending' = Append(pending, Suspended(a, "cacheSet", 0))
       /\ ret' = Ret("", <<>>)
       /\ UNCHANGED <<streams, channel, published, acked, unacked, db, config,
                      cache, timers, clock>>

GetCachedAccount(streamId) == LoadThroughCache(streamId, MaxInFlight)

\* The rest of getCachedAccount after the await: aggregateCache.set(userId,
\* account); return account.
ResumeGetCachedAccount ==
  /\ pending # <<>>
  /\ Head(pending).then = "cacheSet"
  /\ LET a == Head(pending).account
         s == CacheSet(cache, timers, clock, accounts[a].streamId, a)
     IN /\ cache' = s.cache
        /\ timers' = s.timers
        /\ ret' = Ret("", Given(a))
  /\ pending' = Tail(pending)
  /\ UNCHANGED <<streams, snapshots, heap, accounts, channel, published, acked,
                 unacked, db, config, clock>>

NextCached ==
  \/ Next
  \/ \E s \in StreamIds : GetCachedAccount(s)
  \/ ResumeGetCachedAccount
  \/ Tick
  \/ \E t \in timers : Evict(t)

SpecCached == Init /\ [][NextCached]_vars

\* The same callers while no eviction timer is due.
NextIndependent ==
  \/ Next
  \/ \E s \in StreamIds : GetCachedAccount(s)
  \/ ResumeGetCachedAccount

SpecIndependent == Init /\ [][NextIndependent]_vars

\* Callers that reach the aggregates through getCachedAccount only and do
\* not wait for one another: a call of getCachedAccount may start while an
\* earlier one is suspended at `await account.load()`, and a command runs on
\* an instance once getCachedAccount has returned it.
OverlappingGetCachedAccount(streamId) ==
  LoadThroughCache(streamId, MaxInFlight + 1)

HandedOut(a) ==
  /\ accounts[a].live
  /\ \A i \in 1 .. Len(pending) :
       ~(pending[i].account = a /\ pending[i].then = "cacheSet")

RoutedCommand(a, cmd, amount) ==
  /\ HandedOut(a)
  /\ RunCommand(a, cmd, amount, MaxEvents, MaxInFlight + 1)

NextRouted ==
  \/ PublisherInit
  \/ \E s \in StreamIds : OverlappingGetCachedAccount(s)
  \/ ResumeGetCachedAccount
  \/ \E a \in AccountIds, cmd \in CommandNames, amount \in Amounts :
       RoutedCommand(a, cmd, amount)
  \/ ResumeCommand
  \/ Consume

SpecRouted == Init /\ [][NextRouted]_vars

----------------------------------------------------------------------------
(* The simulation of Controller.js: main *)

\* The snapshot threshold of the simulation.
ScenarioThreshold == 5

\* const userId
ScenarioStream == StreamOrder[1]

\* The runCmd calls of main, in order.
Script ==
  << [cmd |-> "openAccount", amount |-> 100],
     [cmd |-> "deposit", amount |-> 50],
     [cmd |-> "withdraw", amount |-> 20],
     [cmd |-> "deposit", amount |-> 10],
     [cmd |-> "deposit", amount |-> 10] >>

\* How many runCmd calls have run their command: each appends one event.
Done == Len(AllEvents(streams, ScenarioStream))

\* main: `await eventPublisher.init()` comes first.
MainInit == PublisherInit

\* runCmd, cache miss: getCachedAccount up to its await.  main awaits each
\* runCmd, so a call starts only when the one before it has returned.
RunCmdMiss ==
  /\ channel = "open"
  /\ pending = <<>>
  /\ Done < Len(Script)
  /\ CacheGet(cache, ScenarioStream) = Undefined
  /\ GetCachedAccount(ScenarioStream)

\* runCmd: the command of the script on the instance getCachedAccount returns,
\* the cached one, up to the command's await.
RunCmd ==
  /\ channel = "open"
  /\ pending = <<>>
  /\ Done < Len(Script)
  /\ CacheGet(cache, ScenarioStream) # Undefined
  /\ RunCommand(CacheGet(cache, ScenarioStream)[1], Script[Done + 1].cmd,
                Script[Done + 1].amount, Len(Script), MaxInFlight)

NextScenario ==
  \/ MainInit
  \/ RunCmdMiss
  \/ ResumeGetCachedAccount
  \/ RunCmd
  \/ ResumeCommand
  \/ Consume
  \/ Tick
  \/ \E t \in timers : Evict(t)

SpecScenario == InitWith(ScenarioThreshold) /\ [][NextScenario]_vars

----------------------------------------------------------------------------
(* The AggregateCache called directly *)

\* aggregateCache.set(streamId, aggregate)
DirectCacheSet(streamId, aggregate) ==
  /\ LET s == CacheSet(cache, timers, clock, streamId, aggregate)
     IN /\ cache' = s.cache
        /\ timers' = s.timers
  /\ ret' = Ret("", <<>>)
  /\ UNCHANGED <<streams, snapshots, heap, accounts, pending, channel, published,
                 acked, unacked, db, config, clock>>

\* aggregateCache.get(streamId)
DirectCacheGet(streamId) ==
  /\ ret' = Ret("", CacheGet(cache, streamId))
  /\ UNCHANGED <<streams, snapshots, heap, accounts, pending, channel, published,
                 acked, unacked, db, config, cache, timers, clock>>

NextCache ==
  \/ \E s \in StreamIds, a \in AccountIds : DirectCacheSet(s, a)
  \/ \E s \in StreamIds : DirectCacheGet(s)
  \/ Tick
  \/ \E t \in timers : Evict(t)

SpecCache == Init /\ [][NextCache]_vars

----------------------------------------------------------------------------
(* The EventStore called directly *)

\* The event types a direct caller hands to save and to applyUpdate.
SavedTypes == {"MoneyDeposited", OtherType}
AppliedTypes == EventTypes \cup {OtherType}

\* The options a direct caller hands to getStream.
StartArgs == {Undefined, Given(2)}
CountArgs == {Undefined, Given(1)}

\* expectedSeq as a direct caller passes it: a version, or left out.
ExpectedSeqs == {Given(n) : n \in 0 .. MaxEvents} \cup {Undefined}

\* eventStore.save(streamId, eventType, data, expectedSeq)
StoreSave(streamId, eventType, data, expectedSeq) ==
  LET saved == Save(streams, streamId, eventType, data, expectedSeq)
  IN /\ streams' = saved.streams
     /\ IF saved.threw
        THEN ret' = Ret("Concurrency Conflict", <<>>)
        ELSE /\ TotalEvents(streams) < MaxEvents
             /\ ret' = Ret("", <<saved.event>>)
     /\ UNCHANGED <<snapshots, heap, accounts, pending, channel, published,
                    acked, unacked, db, config>>
     /\ UNCHANGED cacheVars

\* eventStore.getStream(streamId, {startingFromSeqNum, direction, maxCount})
StoreGetStream(streamId, startingFromSeqNum, direction, maxCount) ==
  /\ ret' = Ret("", GetStream(streams, streamId, startingFromSeqNum, direction,
                              maxCount))
  /\ UNCHANGED <<streams, snapshots, heap, accounts, pending, channel, published,
                 acked, unacked, db, config>>
  /\ UNCHANGED cacheVars

NextStore ==
  \/ \E s \in StreamIds, t \in SavedTypes, e \in ExpectedSeqs :
       StoreSave(s, t, DataFor(t, MaxAmount), e)
  \/ \E s \in StreamIds, from \in StartArgs, max \in CountArgs,
        d \in {"forwards", "backwards"} :
       StoreGetStream(s, from, d, max)

SpecStore == Init /\ [][NextStore]_vars

----------------------------------------------------------------------------
(* The ReadModelDB called directly *)

\* seqNum as a direct caller passes it.
SeqArgs == 0 .. MaxSeqArg

\* The payloads a direct caller passes with a type: the one the commands build
\* for it, or none.
DirectData(eventType) ==
  {DataFor(eventType, n) : n \in Amounts} \cup {NoData}

\* readModel.applyUpdate(id, eventType, data, seqNum)
DirectApplyUpdate(id, eventType, data, seqNum) ==
  LET r == ApplyUpdate(db, id, eventType, data, seqNum)
  IN /\ db' = r.db
     /\ ret' = Ret(IF r.threw THEN "TypeError" ELSE "",
                   IF r.skipped THEN <<"Skipping">> ELSE <<>>)
     /\ UNCHANGED <<streams, snapshots, heap, accounts, pending, channel,
                    published, acked, unacked, config>>
     /\ UNCHANGED cacheVars

NextReadModel ==
  \E id \in StreamIds, t \in AppliedTypes, n \in SeqArgs :
    \E d \in DirectData(t) : DirectApplyUpdate(id, t, d, n)

SpecReadModel == Init /\ [][NextReadModel]_vars

----------------------------------------------------------------------------
(* The publisher and the Projector on their own *)

\* The events a direct caller hands to publish: events of one stream, with the
\* payload the commands build or with none.
PublishedTypes == {"AccountOpened", "MoneyDeposited"}

PublishedEvents ==
  UNION {{NewEvent(StreamOrder[1], t, d, n) :
            d \in {DataFor(t, MaxAmount), NoData}, n \in 1 .. MaxSeqArg} :
         t \in PublishedTypes}

\* eventPublisher.publish(event)
DirectPublish(event) ==
  /\ IF PublishRejects(channel)
     THEN /\ ret' = Ret("Publisher not initialized", <<>>)
          /\ UNCHANGED published
     ELSE /\ Len(published) < MaxPublished
          /\ published' = Append(published, JsonStringify(event))
          /\ ret' = Ret("", <<>>)
  /\ UNCHANGED <<streams, snapshots, heap, accounts, pending, channel, acked,
                 unacked, db, config>>
  /\ UNCHANGED cacheVars

NextProjector ==
  \/ PublisherInit
  \/ \E e \in PublishedEvents : DirectPublish(e)
  \/ Consume

SpecProjector == Init /\ [][NextProjector]_vars

\* The event loop runs a callback that is ready to run.
LiveProjector == SpecProjector /\ WF_vars(Consume)

----------------------------------------------------------------------------
(* The Projector under at-least-once delivery *)

\* The store receives events of the commands' types with the payloads the
\* commands build.
AppendEvent(streamId, eventType, amount) ==
  StoreSave(streamId, eventType, DataFor(eventType, amount), Undefined)

\* The broker hands the consume callback the message of event seqNum of the
\* stream: the next event in order, or once more one that was applied (its
\* acknowledgement was lost with a crash or a closed connection).  The callback
\* parses it, calls applyUpdate and acknowledges.
Deliver(streamId, seqNum) ==
  /\ seqNum <= Len(streams[streamId].events)
  /\ seqNum <= db[streamId].lastProcessedSeq + 1
  /\ acked < MaxDeliveries
  /\ LET event == JsonParse(JsonStringify(streams[streamId].events[seqNum]))
         r == ApplyUpdate(db, event.streamId, event.type, event.data, event.seqNum)
     IN /\ db' = r.db
        /\ acked' = IF Acks(r.threw) THEN acked + 1 ELSE acked
        /\ ret' = Ret(IF r.threw THEN "TypeError" ELSE "",
                      IF r.skipped THEN <<"Skipping">> ELSE <<>>)
  /\ UNCHANGED <<streams, snapshots, heap, accounts, pending, channel, published,
                 unacked, config>>
  /\ UNCHANGED cacheVars

NextRedelivery ==
  \/ \E s \in StreamIds, t \in EventTypes, amount \in Amounts :
       AppendEvent(s, t, amount)
  \/ \E s \in StreamIds, n \in 1 .. MaxEvents : Deliver(s, n)

SpecRedelivery == Init /\ [][NextRedelivery]_vars

----------------------------------------------------------------------------
(* The claims *)

\* A stream's current version as the specification defines it: the seqNum of
\* its last event, 0 if it has none.
VersionOf(events) == IF events = <<>> THEN 0 ELSE events[Len(events)].seqNum

EventsOf(strs, streamId) == strs[streamId].events

\* C1: a save whose expectedSeq is given and differs from the stream's current
\* version throws the Concurrency Conflict error and leaves the event list of
\* every stream as it was.
C1_ConflictingSaveChangesNothing ==
  [][\A s \in StreamIds, t \in SavedTypes, e \in ExpectedSeqs :
       ( /\ e # Undefined
         /\ e[1] # VersionOf(EventsOf(streams, s))
         /\ StoreSave(s, t, DataFor(t, MaxAmount), e) )
       => /\ ret'.outcome = "Concurrency Conflict"
          /\ \A x \in StreamIds : EventsOf(streams', x) = EventsOf(streams, x)]_vars

\* A conflicting save has just been refused on a stream that had no entry in
\* the store, while the other stream holds events.
C1_Witness ==
  /\ ret.outcome = "Concurrency Conflict"
  /\ \E s, x \in StreamIds :
       /\ streams[s].has /\ EventsOf(streams, s) = <<>>
       /\ Len(EventsOf(streams, x)) >= 2

\* C4: in every stream the stored events carry seqNum 1, 2, ..., n in storage
\* order, so the current version is the number of events.
C4_SeqNumsContiguous ==
  \A s \in StreamIds :
    /\ \A i \in 1 .. Len(EventsOf(streams, s)) : EventsOf(streams, s)[i].seqNum = i
    /\ CurrentVersion(streams, s) = Len(EventsOf(streams, s))

\* A save has just appended a third event to a stream.
C4_Witness ==
  /\ ret.outcome = ""
  /\ ret.value # <<>>
  /\ \E s \in StreamIds :
       /\ Len(EventsOf(streams, s)) = 3
       /\ ret.value = <<Last(EventsOf(streams, s))>>

\* C5: the event store is append-only: over every step each stream's events
\* keep the earlier events, unchanged, as a prefix.
C5_AppendOnly ==
  [][\A s \in StreamIds : IsPrefix(EventsOf(streams, s), EventsOf(streams', s))]_vars

\* Commands, a snapshot, a load on the snapshot and the projection have all
\* acted on a stream of three events.
C5_Witness ==
  \E s \in StreamIds :
    /\ Len(EventsOf(streams, s)) = 3
    /\ snapshots[s].has
    /\ db[s].lastProcessedSeq = 3
    /\ \E a \in AccountIds : accounts[a].live /\ accounts[a].state = snapshots[s].state

\* The business rule of each command, as the specification states it.
PassesValidation(cmd, state, amount) ==
  CASE cmd = "openAccount" -> state.status # "Active"
    [] cmd = "deposit" -> state.status = "Active"
    [] cmd = "withdraw" -> state.status = "Active" /\ state.balance >= amount

\* The instance's lastSeq is not the store's version of its stream.
IsStale(a) ==
  /\ accounts[a].live
  /\ accounts[a].lastSeq # VersionOf(EventsOf(streams, accounts[a].streamId))

\* C2: a command that passes validation on an instance whose lastSeq is stale
\* ends with the concurrency-conflict error, and the store, the instance's
\* state and lastSeq, and the published messages are as they were.
C2_StaleCommandConflicts ==
  [][\A a \in AccountIds, cmd \in CommandNames, amount \in Amounts :
       ( /\ IsStale(a)
         /\ PassesValidation(cmd, heap[accounts[a].state], amount)
         /\ Command(a, cmd, amount) )
       => /\ ret'.outcome = "Concurrency Conflict"
          /\ \A s \in StreamIds : EventsOf(streams', s) = EventsOf(streams, s)
          /\ accounts' = accounts
          /\ heap' = heap
          /\ published' = published
          /\ pending' = pending
          /\ snapshots' = snapshots]_vars

\* A command has just been refused on an Active instance that is one version
\* behind its stream.
C2_Witness ==
  /\ ret.outcome = "Concurrency Conflict"
  /\ \E a \in AccountIds :
       /\ IsStale(a)
       /\ accounts[a].lastSeq + 1 = VersionOf(EventsOf(streams, accounts[a].streamId))
       /\ heap[accounts[a].state].status = "Active"

\* C3: no lost update.  Of two instances hydrated at the version k of one
\* stream, the one whose valid command runs first appends exactly one event,
\* numbered k + 1, after the events already there; the other is then stale and
\* its save is refused.  No command appends unless its instance is at the
\* stream's version.
C3_NoLostUpdate ==
  [][\A a \in AccountIds, cmd \in CommandNames, amount \in Amounts :
       ( /\ accounts[a].live
         /\ PassesValidation(cmd, heap[accounts[a].state], amount)
         /\ Command(a, cmd, amount) )
       => LET s == accounts[a].streamId
              k == accounts[a].lastSeq
              before == EventsOf(streams, s)
              after == EventsOf(streams', s)
          IN IF k = VersionOf(before)
             THEN /\ Len(after) = Len(before) + 1
                  /\ IsPrefix(before, after)
                  /\ Last(after).seqNum = k + 1
                  /\ Last(after).type = EventTypeOf(cmd)
                  /\ \A b \in AccountIds \ {a} :
                       ( /\ accounts[b].live
                         /\ accounts[b].streamId = s
                         /\ accounts[b].lastSeq = k )
                       => /\ accounts'[b].lastSeq = k
                          /\ Save(streams', s, "MoneyDeposited", AmountData(1),
                                  ExpectedSeqOf(accounts'[b])).threw
             ELSE /\ ret'.outcome = "Concurrency Conflict"
                  /\ after = before]_vars

\* Two instances of one stream were at the same version; one has appended and
\* the command of the other has just been refused.
C3_Witness ==
  /\ ret.outcome = "Concurrency Conflict"
  /\ \E a, b \in AccountIds :
       /\ a # b
       /\ accounts[a].live /\ accounts[b].live
       /\ accounts[a].streamId = accounts[b].streamId
       /\ accounts[a].lastSeq = Len(EventsOf(streams, accounts[a].streamId))
       /\ accounts[b].lastSeq = accounts[a].lastSeq - 1
       /\ accounts[b].lastSeq >= 1

\* The state a full replay of the stream's events 1..n gives.
ReplayedState(streamId, n) ==
  ApplyAll(InitialState, SubSeq(EventsOf(streams, streamId), 1, n))

\* C6: the state of every instance is the left fold of applyEventToState over
\* the events 1..lastSeq of its stream, from {balance 0, status Closed}.
C6_StateIsFoldOfEvents ==
  \A a \in AccountIds :
    accounts[a].live
      => heap[accounts[a].state] = ReplayedState(accounts[a].streamId, accounts[a].lastSeq)

\* What load() gives a new BankAccount(streamId) with the snapshots `snaps`:
\* the fields of its state and its lastSeq.
ColdLoad(snaps, streamId) ==
  LET state == NewObject(accounts, snaps)
      fresh == [live |-> TRUE, streamId |-> streamId, state |-> state, lastSeq |-> 0]
      r == Load(streams, snaps, [heap EXCEPT ![state] = InitialState], fresh)
  IN [state |-> r.heap[r.account.state], lastSeq |-> r.account.lastSeq]

\* C7: replay determinism.  For every stream, load() with the stored snapshot
\* and its delta gives the state and lastSeq that load() by full replay gives.
C7_ReplayDeterminism ==
  \A s \in StreamIds :
    ColdLoad(snapshots, s) = ColdLoad([x \in StreamIds |-> NoSnapshot], s)

\* What getSnapshot(streamId) returns: the fields of the stored state and
\* lastSeqNum.
SnapshotValue(snaps, h, streamId) ==
  [state |-> h[snaps[streamId].state], lastSeqNum |-> snaps[streamId].lastSeqNum]

\* The step is a saveSnapshot for the stream.
SavesSnapshot(streamId) ==
  /\ ResumeCommand
  /\ accounts[Head(pending).account].streamId = streamId
  /\ CrossesThreshold(accounts[Head(pending).account].lastSeq,
                      config.SNAPSHOT_THRESHOLD)

\* C8: snapshot isolation.  A stored snapshot is returned unchanged by
\* getSnapshot until the next saveSnapshot for its stream, whatever the live
\* instances do.
C8_SnapshotIsolation ==
  [][\A s \in StreamIds :
       (snapshots[s].has /\ ~SavesSnapshot(s))
       => /\ snapshots'[s].has
          /\ SnapshotValue(snapshots', heap', s) = SnapshotValue(snapshots, heap, s)]_vars

\* C9: applyUpdate with seqNum <= the record's lastProcessedSeq (0 for an id
\* with no record) is a no-op, whatever the event type and data: the whole
\* read-model map is unchanged and nothing is thrown.
C9_ProcessedSeqIsNoOp ==
  [][\A id \in StreamIds, t \in AppliedTypes, n \in SeqArgs :
       \A d \in DirectData(t) :
         ( /\ n <= db[id].lastProcessedSeq
           /\ DirectApplyUpdate(id, t, d, n) )
         => /\ db' = db
            /\ ret'.outcome = ""]_vars

\* An event has just been skipped on a record that has processed seqNum 2 or
\* more and holds a balance.
C9_Witness ==
  /\ ret.value = <<"Skipping">>
  /\ \E id \in StreamIds :
       /\ db[id].has
       /\ db[id].lastProcessedSeq >= 2
       /\ db[id].balance # 0

\* C10: idempotent projection.  From every read-model state and for every
\* event, applying the event twice in a row leaves the record that applying
\* it once leaves.
C10_ApplyTwiceIsApplyOnce ==
  \A id \in StreamIds, t \in AppliedTypes, n \in SeqArgs :
    \A d \in DirectData(t) :
      LET once == ApplyUpdate(db, id, t, d, n).db
          twice == ApplyUpdate(once, id, t, d, n).db
      IN twice = once

\* A record exists that one more deposit would change.
C10_Witness ==
  \E id \in StreamIds :
    /\ db[id].has
    /\ db[id].status = "Active"
    /\ db[id].lastProcessedSeq >= 1
    /\ \E n \in SeqArgs :
         ApplyUpdate(db, id, "MoneyDeposited", AmountData(1), n).db[id].balance
           # db[id].balance

\* C11: over every applyUpdate call, in any order of seqNum and with
\* duplicates, no record's lastProcessedSeq decreases and no record that
\* exists is deleted.
C11_LastProcessedSeqNeverDecreases ==
  [][\A id \in StreamIds :
       /\ db'[id].lastProcessedSeq >= db[id].lastProcessedSeq
       /\ db[id].has => db'[id].has]_vars

\* A call has just thrown on a record that had taken a later event before any
\* AccountOpened: it is at seqNum 2 or more and still Closed.
C11_Witness ==
  /\ ret.outcome = "TypeError"
  /\ \E id \in StreamIds :
       /\ db[id].has
       /\ db[id].lastProcessedSeq >= 2
       /\ db[id].status = "Closed"

\* C12: the Projector acknowledges a message only after applyUpdate for that
\* message has returned without an exception: every step that acknowledges
\* acknowledges one message, the one delivered, and leaves the read model as
\* applyUpdate of its event (applied, or skipped as a duplicate) leaves it.
C12_AckOnlyAfterApplied ==
  [][acked' # acked =>
       /\ acked' = acked + 1
       /\ acked + unacked < Len(published)
       /\ LET event == JsonParse(NextDelivery)
              r == ApplyUpdate(db, event.streamId, event.type, event.data,
                               event.seqNum)
          IN /\ ~r.threw
             /\ db' = r.db]_vars

\* Two messages were acknowledged, one of them applied, and a third one, whose
\* applyUpdate threw, is held without acknowledgment.
C12_Witness ==
  /\ acked = 2
  /\ unacked = 1
  /\ db[StreamOrder[1]].has

\* C13: the Projector takes one message at a time: at most one message is
\* delivered and unacknowledged, and the callback starts on a message only
\* when every message delivered before it has been acknowledged.
C13_OneMessageAtATime ==
  [][/\ unacked' <= 1
     /\ Consume => unacked = 0]_vars

\* A message is held unacknowledged while another one waits in the queue
\* behind it.
C13_Witness ==
  /\ unacked = 1
  /\ acked >= 1
  /\ Len(published) > acked + unacked

\* C14: when applyUpdate throws, the message is not acknowledged and it is
\* delivered again: a message held unacknowledged does not stay held, it goes
\* back to the queue for another delivery, and the consumer goes on with the
\* messages behind it.
C14_FailedMessageIsRetried ==
  (unacked > 0) ~> (unacked = 0)

\* The message each command throws when its business rule fails.
ExpectedError(cmd, state, amount) ==
  IF cmd = "openAccount" THEN "Already active"
  ELSE IF state.status # "Active" THEN "Account closed"
  ELSE "Insufficient funds"

\* C15: validation fails fast with no side effect.  openAccount on an Active
\* account, deposit or withdraw on an account that is not Active, and withdraw
\* of more than the balance each end with the validation error, and the event
\* store, the instances' state and lastSeq, the published messages and the
\* snapshots are as they were.
C15_ValidationFailsFast ==
  [][\A a \in AccountIds, cmd \in CommandNames, amount \in Amounts :
       ( /\ accounts[a].live
         /\ ~PassesValidation(cmd, heap[accounts[a].state], amount)
         /\ Command(a, cmd, amount) )
       => /\ ret'.outcome = ExpectedError(cmd, heap[accounts[a].state], amount)
          /\ streams' = streams
          /\ accounts' = accounts
          /\ heap' = heap
          /\ published' = published
          /\ pending' = pending
          /\ snapshots' = snapshots]_vars

\* A withdraw has just been refused for insufficient funds on an account with
\* published events and a stored snapshot.
C15_Witness ==
  /\ ret.outcome = "Insufficient funds"
  /\ Len(published) >= 2
  /\ \E a \in AccountIds :
       /\ accounts[a].live
       /\ snapshots[accounts[a].streamId].has
       /\ heap[accounts[a].state].balance < MaxAmount

\* C16: a publish failure does not roll back the append.  A valid command on
\* an up-to-date instance, run while the publisher is not initialized, ends
\* with the publisher's error; its event is the last one of the stream, at the
\* next seqNum, and the instance's state and lastSeq include it.
C16_PublishFailureKeepsAppend ==
  [][\A a \in AccountIds, cmd \in CommandNames, amount \in Amounts :
       ( /\ accounts[a].live
         /\ channel = "null"
         /\ ~IsStale(a)
         /\ PassesValidation(cmd, heap[accounts[a].state], amount)
         /\ Command(a, cmd, amount) )
       => LET s == accounts[a].streamId
              event == NewEvent(s, EventTypeOf(cmd), DataFor(cmd, amount),
                                accounts[a].lastSeq + 1)
          IN /\ ret'.outcome = "Publisher not initialized"
             /\ EventsOf(streams', s) = Append(EventsOf(streams, s), event)
             /\ accounts'[a].lastSeq = event.seqNum
             /\ accounts'[a].lastSeq = CurrentVersion(streams', s)
             /\ heap'[accounts'[a].state]
                  = ApplyEventToState(heap[accounts[a].state], event)]_vars

\* Two commands in a row have failed at publish; both events are stored and
\* the instance is at version 2 with the balance they give.
C16_Witness ==
  /\ ret.outcome = "Publisher not initialized"
  /\ published = <<>>
  /\ \E a \in AccountIds :
       /\ accounts[a].live
       /\ accounts[a].lastSeq = 2
       /\ Len(EventsOf(streams, accounts[a].streamId)) = 2
       /\ heap[accounts[a].state].balance = 2 * MaxAmount

\* C17: a transport error only delays the read model.  Every event committed
\* to the store, one whose publish failed included, is in the end applied to
\* the read model: from some point on each record is at its stream's version
\* with the balance and status the stream's events give.
C17_EveryCommittedEventReachesReadModel ==
  \A s \in StreamIds :
    <>[](LET n == VersionOf(EventsOf(streams, s))
         IN /\ db[s].lastProcessedSeq = n
            /\ db[s].balance = ReplayedState(s, n).balance
            /\ db[s].status = ReplayedState(s, n).status)

\* What a caller sees of an instance: the fields of its state and its lastSeq.
Observed(a) == [state |-> heap[accounts[a].state], lastSeq |-> accounts[a].lastSeq]

\* C18: cache transparency.  For every stream with a cache entry, the
\* instance a cache hit returns has the state and lastSeq that a cold load,
\* new BankAccount and load(), gives at that moment.
C18_CacheTransparency ==
  \A s \in StreamIds :
    CacheGet(cache, s) # Undefined
      => Observed(CacheGet(cache, s)[1]) = ColdLoad(snapshots, s)

\* C19: an entry stored by set at time T is not returned by get after T + TTL:
\* every entry get can return was set no more than TTL ago.
C19_NoEntryOlderThanTTL ==
  \A s \in StreamIds :
    CacheGet(cache, s) # Undefined => clock <= cache[s].setAt + TTL

\* One entry has reached the end of its time to live with its timer due, and
\* the other stream's entry, set earlier, has been evicted.
C19_Witness ==
  \E s, x \in StreamIds :
    /\ cache[s].has
    /\ cache[s].setAt >= 1
    /\ clock = cache[s].setAt + TTL
    /\ [streamId |-> s, due |-> clock] \in timers
    /\ ~cache[x].has
    /\ \A t \in timers : t.streamId # x

\* The aggregate and the snapshot the scenario ends with.
FinalState == [balance |-> 150, status |-> "Active"]

\* C20: the end-to-end scenario.  On a fresh stream with threshold 5, each of
\* open(100), deposit(50), withdraw(20), deposit(10), deposit(10) succeeds and
\* appends the event with the next seqNum; the fifth leaves its aggregate with
\* balance 150 and lastSeq 5; and a snapshot is saved once, after the fifth,
\* with lastSeqNum 5 and balance 150.
C20_EndToEndScenario ==
  [][/\ RunCmd
        => /\ ret'.outcome = ""
           /\ Len(EventsOf(streams', ScenarioStream)) = Done + 1
           /\ \A i \in 1 .. (Done + 1) :
                /\ EventsOf(streams', ScenarioStream)[i].seqNum = i
                /\ EventsOf(streams', ScenarioStream)[i].type = EventTypeOf(Script[i].cmd)
           /\ Done + 1 = Len(Script)
                => Observed(CacheGet(cache, ScenarioStream)[1])'
                     = [state |-> FinalState, lastSeq |-> 5]
     /\ SavesSnapshot(ScenarioStream)
        => /\ Done = 5
           /\ ~snapshots[ScenarioStream].has
           /\ SnapshotValue(snapshots', heap', ScenarioStream)
                = [state |-> FinalState, lastSeqNum |-> 5]
     /\ ~SavesSnapshot(ScenarioStream)
        => /\ snapshots'[ScenarioStream].has = snapshots[ScenarioStream].has
           /\ snapshots[ScenarioStream].has
                => SnapshotValue(snapshots', heap', ScenarioStream)
                     = SnapshotValue(snapshots, heap, ScenarioStream)
     /\ (Done = Len(Script) /\ pending = <<>>) => snapshots[ScenarioStream].has]_vars

\* The five commands have run, the snapshot of seqNum 5 is stored and the
\* Projector has applied all five events.
C20_Witness ==
  /\ Done = 5
  /\ pending = <<>>
  /\ snapshots[ScenarioStream].lastSeqNum = 5
  /\ heap[snapshots[ScenarioStream].state].balance = 150
  /\ db[ScenarioStream].lastProcessedSeq = 5
  /\ db[ScenarioStream].balance = 150

\* C21: the version-zero stream.  On a stream with no events, getStream
\* returns the empty list for either direction and any options and changes
\* nothing stored; save with expectedSeq 0 succeeds and returns the event with
\* seqNum 1, now the stream's only event; save with any other expectedSeq
\* given ends with the conflict error and appends nothing.
C21_VersionZeroStream ==
  [][\A s \in StreamIds :
       EventsOf(streams, s) = <<>>
       => /\ \A from \in StartArgs, max \in CountArgs, d \in {"forwards", "backwards"} :
               StoreGetStream(s, from, d, max)
               => /\ ret'.value = <<>>
                  /\ streams' = streams
          /\ \A t \in SavedTypes, e \in ExpectedSeqs \ {Undefined} :
               StoreSave(s, t, DataFor(t, MaxAmount), e)
               => IF e = Given(0)
                  THEN /\ ret'.outcome = ""
                       /\ ret'.value = <<NewEvent(s, t, DataFor(t, MaxAmount), 1)>>
                       /\ EventsOf(streams', s) = ret'.value
                  ELSE /\ ret'.outcome = "Concurrency Conflict"
                       /\ EventsOf(streams', s) = <<>>]_vars

\* The first event of a stream has just been saved while the other stream has
\* never been used.
C21_Witness ==
  /\ ret.outcome = ""
  /\ \E s, x \in StreamIds :
       /\ ~streams[x].has
       /\ Len(EventsOf(streams, s)) = 1
       /\ ret.value = EventsOf(streams, s)
       /\ ret.value[1].seqNum = 1

\* The events of `events` from seqNum `from` on (all of them when `from` is
\* undefined), as a set.
AtOrAfter(events, from) ==
  {events[i] : i \in {j \in 1 .. Len(events) :
                       from = Undefined \/ events[j].seqNum >= from[1]}}

\* The events of `events` up to seqNum `from`, as a set.
AtOrBefore(events, from) ==
  {events[i] : i \in {j \in 1 .. Len(events) :
                       from = Undefined \/ events[j].seqNum <= from[1]}}

Elements(seq) == {seq[i] : i \in 1 .. Len(seq)}

Ascending(seq) == \A i, j \in 1 .. Len(seq) : i < j => seq[i].seqNum < seq[j].seqNum

Descending(seq) == \A i, j \in 1 .. Len(seq) : i < j => seq[i].seqNum > seq[j].seqNum

\* `result` is the first `max` elements of `whole` (all of it when `max` is
\* undefined).
Truncated(result, whole, max) ==
  IF max = Undefined \/ Len(whole) <= max[1] THEN result = whole
  ELSE Len(result) = max[1] /\ IsPrefix(result, whole)

\* C22: getStream forwards returns exactly the events with seqNum >=
\* startingFromSeqNum (all when it is omitted), in ascending seqNum order, cut
\* to the first maxCount when maxCount is given, and leaves the store as it is.
C22_ForwardsRead ==
  [][\A s \in StreamIds, from \in StartArgs, max \in CountArgs :
       StoreGetStream(s, from, "forwards", max)
       => LET whole == GetStream(streams, s, from, "forwards", Undefined)
          IN /\ Elements(whole) = AtOrAfter(EventsOf(streams, s), from)
             /\ Len(whole) = Cardinality(AtOrAfter(EventsOf(streams, s), from))
             /\ Ascending(whole)
             /\ Truncated(ret'.value, whole, max)
             /\ streams' = streams]_vars

\* A forwards read from seqNum 2 with maxCount 1 has just returned the second
\* of three events.
C22_Witness ==
  \E s \in StreamIds :
    /\ Len(EventsOf(streams, s)) = 3
    /\ ret.value = <<EventsOf(streams, s)[2]>>
    /\ ret.value = GetStream(streams, s, Given(2), "forwards", Given(1))

\* C23: getStream backwards returns exactly the events with seqNum <=
\* startingFromSeqNum (all when it is omitted), in descending seqNum order, cut
\* to the first maxCount; backwards with maxCount 1 and no start is the last
\* event appended, or the empty list, and save takes its version from it.
C23_BackwardsRead ==
  [][\A s \in StreamIds, from \in StartArgs, max \in CountArgs :
       StoreGetStream(s, from, "backwards", max)
       => LET whole == GetStream(streams, s, from, "backwards", Undefined)
              events == EventsOf(streams, s)
          IN /\ Elements(whole) = AtOrBefore(events, from)
             /\ Len(whole) = Cardinality(AtOrBefore(events, from))
             /\ Descending(whole)
             /\ Truncated(ret'.value, whole, max)
             /\ (from = Undefined /\ max = Given(1))
                  => /\ ret'.value = IF events = <<>> THEN <<>> ELSE <<Last(events)>>
                     /\ CurrentVersion(streams, s) = VersionOf(ret'.value)
             /\ streams' = streams]_vars

\* A backwards read with maxCount 1 has just returned the last of three
\* events.
C23_Witness ==
  \E s \in StreamIds :
    /\ Len(EventsOf(streams, s)) = 3
    /\ ret.value = <<EventsOf(streams, s)[3]>>
    /\ ret.value = GetStream(streams, s, Undefined, "backwards", Given(1))

\* The event is in the store, at the place of its seqNum in its stream.
StoredEvent(strs, event) ==
  /\ event.seqNum \in 1 .. Len(EventsOf(strs, event.streamId))
  /\ EventsOf(strs, event.streamId)[event.seqNum] = event

\* C24: a command appends, folds, advances lastSeq, publishes and then checks
\* the snapshot, in this order.  When a message is handed to the publisher
\* its event is in the store and the state and lastSeq of the instance that
\* ran the command include it; no message is published whose event is not
\* stored; and a snapshot is saved at a seqNum only after the event of that
\* seqNum was published.
C24_AppendFoldPublishSnapshot ==
  [][/\ published' # published
        => LET event == JsonParse(Last(published'))
           IN /\ published' = Append(published, Last(published'))
              /\ StoredEvent(streams', event)
              /\ \E a \in AccountIds :
                   /\ accounts[a].live
                   /\ accounts[a].streamId = event.streamId
                   /\ accounts[a].lastSeq = event.seqNum - 1
                   /\ accounts'[a].lastSeq = event.seqNum
                   /\ heap'[accounts'[a].state]
                        = ApplyEventToState(heap[accounts[a].state], event)
     /\ \A i \in 1 .. Len(published') : StoredEvent(streams', JsonParse(published'[i]))
     /\ \A s \in StreamIds :
          SavesSnapshot(s)
          => \E i \in 1 .. Len(published) :
               /\ JsonParse(published[i]).streamId = s
               /\ JsonParse(published[i]).seqNum = snapshots'[s].lastSeqNum]_vars

\* A snapshot of seqNum 2 is stored, both events of its stream were published
\* before it, and a third event has been published since.
C24_Witness ==
  \E s \in StreamIds :
    /\ snapshots[s].has
    /\ snapshots[s].lastSeqNum = 2
    /\ Len(published) = 3
    /\ \A i \in 1 .. 3 : JsonParse(published[i]) = EventsOf(streams, s)[i]

\* C25: the continuation of a command whose appended event has a seqNum that
\* is a positive multiple of SNAPSHOT_THRESHOLD stores a snapshot with that
\* lastSeqNum, and the continuation of any other command stores no snapshot,
\* also when commands on one instance overlap at the publish await.
C25_SnapshotAtEveryThreshold ==
  [][/\ pending # <<>>
     /\ pending' = Tail(pending)
     /\ Head(pending).then = "updateSnapshot"
     => LET seqNum == Head(pending).seqNum
            s == accounts[Head(pending).account].streamId
        IN IF seqNum > 0 /\ seqNum % config.SNAPSHOT_THRESHOLD = 0
           THEN /\ snapshots'[s].has
                /\ snapshots'[s].lastSeqNum = seqNum
           ELSE /\ snapshots'[s].has = snapshots[s].has
                /\ snapshots'[s].lastSeqNum = snapshots[s].lastSeqNum]_vars

\* C26: after load(), the instance's lastSeq is the store's current version
\* of its stream.  With a snapshot it is the seqNum of the last event whose
\* seqNum is at least snapshot.lastSeqNum + 1, or snapshot.lastSeqNum when
\* there is no such event; without one it is the seqNum of the last event, or
\* 0 for a stream without events.
C26_LoadReachesCurrentVersion ==
  [][\A a \in AccountIds :
       LoadAccount(a)
       => LET s == accounts[a].streamId
              events == EventsOf(streams, s)
              snapshot == snapshots[s]
              delta == SelectSeq(events,
                                 LAMBDA e : e.seqNum >= snapshot.lastSeqNum + 1)
              lastSeq == accounts'[a].lastSeq
          IN /\ lastSeq = VersionOf(events)
             /\ IF snapshot.has
                THEN lastSeq = IF delta # <<>> THEN Last(delta).seqNum
                               ELSE snapshot.lastSeqNum
                ELSE lastSeq = IF events # <<>> THEN Last(events).seqNum ELSE 0]_vars

\* Two instances of one stream both at version 3 with the snapshot at 2 and
\* one command at a time: one of them reached 3 by load(), snapshot and delta.
C26_Witness ==
  \E a, b \in AccountIds, s \in StreamIds :
    /\ a # b
    /\ accounts[a].live /\ accounts[a].streamId = s /\ accounts[a].lastSeq = 3
    /\ accounts[b].live /\ accounts[b].streamId = s /\ accounts[b].lastSeq = 3
    /\ snapshots[s].has /\ snapshots[s].lastSeqNum = 2
    /\ VersionOf(EventsOf(streams, s)) = 3

\* The retry of a command after a reload: a new instance of the stream is
\* loaded and the command is submitted on it, up to the append.
Retry(streamId, cmd, amount) ==
  LET fresh == ColdLoad(snapshots, streamId)
      invalid == ValidationError(cmd, fresh.state, amount)
      saved == Save(streams, streamId, EventTypeOf(cmd), DataFor(cmd, amount),
                    Given(fresh.lastSeq))
  IN [validatedOn |-> fresh.state,
      outcome |-> IF invalid # "" THEN invalid
                  ELSE IF saved.threw THEN "Concurrency Conflict" ELSE "",
      events |-> IF invalid # "" THEN EventsOf(streams, streamId)
                 ELSE EventsOf(saved.streams, streamId)]

\* C27: when a command has just failed with the concurrency conflict and
\* nothing is appended before the retry, the command resubmitted on a freshly
\* loaded instance is validated against the state a full replay of the stream
\* gives, never raises the conflict, and appends exactly one event when it
\* passes validation.
C27_RetryAfterConflictIsSafe ==
  ret.outcome = "Concurrency Conflict"
    => \A s \in StreamIds, cmd \in CommandNames, amount \in Amounts :
         LET events == EventsOf(streams, s)
             replayed == ReplayedState(s, Len(events))
             retry == Retry(s, cmd, amount)
         IN /\ retry.validatedOn = replayed
            /\ retry.outcome # "Concurrency Conflict"
            /\ PassesValidation(cmd, replayed, amount)
                 => /\ retry.outcome = ""
                    /\ Len(retry.events) = Len(events) + 1
                    /\ IsPrefix(events, retry.events)

\* The read model after applyUpdate was called exactly once for each of the
\* events 1..n of the stream, in seqNum order, on a read model without records.
RECURSIVE AppliedOnce(_, _)
AppliedOnce(events, n) ==
  IF n = 0 THEN [x \in StreamIds |-> NoRecord]
  ELSE ApplyUpdate(AppliedOnce(events, n - 1), events[n].streamId, events[n].type,
                   events[n].data, events[n].seqNum).db

\* C28: at-least-once delivery is absorbed.  When the events of a stream are
\* delivered in seqNum order with any redeliveries of events already applied,
\* the stream's record is the one that applying each of the events
\* 1..lastProcessedSeq exactly once in order gives.
C28_RedeliveryAbsorbed ==
  \A s \in StreamIds :
    LET n == db[s].lastProcessedSeq
    IN /\ n <= Len(EventsOf(streams, s))
       /\ db[s] = AppliedOnce(EventsOf(streams, s), n)[s]

\* All three events of a stream are applied and the callback has acknowledged
\* more deliveries than there are events: one of them was delivered again.
C28_Witness ==
  \E s \in StreamIds :
    /\ Len(EventsOf(streams, s)) = 3
    /\ db[s].lastProcessedSeq = 3
    /\ db[s].balance > 1
    /\ acked > 3

\* What is held for a stream: its events, its snapshot, its read-model
\* record, its cache entry and what the cached instance holds.
HeldFor(strs, snaps, h, accs, d, c, streamId) ==
  [events |-> EventsOf(strs, streamId),
   snapshot |-> IF snaps[streamId].has
                THEN Given(SnapshotValue(snaps, h, streamId)) ELSE Undefined,
   record |-> d[streamId],
   entry |-> c[streamId],
   cached |-> IF c[streamId].has
              THEN Given([state |-> h[accs[c[streamId].aggregate].state],
                          lastSeq |-> accs[c[streamId].aggregate].lastSeq])
              ELSE Undefined]

\* The step leaves everything held for the streams other than A as it was.
OnlyTouches(A) ==
  \A B \in StreamIds \ {A} :
    HeldFor(streams', snapshots', heap', accounts', db', cache', B)
      = HeldFor(streams, snapshots, heap, accounts, db, cache, B)

\* The append of the command gives the outcome and the event it gives on a
\* store that holds nothing for the other streams.
SameAsAlone(a, cmd, amount) ==
  LET A == accounts[a].streamId
      alone == Save([x \in StreamIds |-> IF x = A THEN streams[x] ELSE NoStream],
                    A, EventTypeOf(cmd), DataFor(cmd, amount),
                    ExpectedSeqOf(accounts[a]))
      valid == ValidationError(cmd, heap[accounts[a].state], amount) = ""
  IN /\ (ret'.outcome = "Concurrency Conflict") <=> (valid /\ alone.threw)
     /\ EventsOf(streams', A) # EventsOf(streams, A)
          => /\ valid /\ ~alone.threw
             /\ EventsOf(streams', A) = Append(EventsOf(streams, A), alone.event)

\* C29: streams are independent.  A command (with its save), a load, a
\* snapshot save, an applyUpdate or a cached load for stream A leaves the
\* events, the snapshot, the read-model record and the cache entry of every
\* other stream unchanged, and the outcome and seqNum of a command's append to
\* A are those it has when the store holds nothing for the other streams.
C29_StreamsAreIndependent ==
  [][/\ \A a \in AccountIds, cmd \in CommandNames, amount \in Amounts :
          Command(a, cmd, amount)
          => OnlyTouches(accounts[a].streamId) /\ SameAsAlone(a, cmd, amount)
     /\ \A a \in AccountIds : LoadAccount(a) => OnlyTouches(accounts[a].streamId)
     /\ ResumeCommand => OnlyTouches(accounts[Head(pending).account].streamId)
     /\ Consume => OnlyTouches(JsonParse(NextDelivery).streamId)
     /\ \A s \in StreamIds : GetCachedAccount(s) => OnlyTouches(s)
     /\ ResumeGetCachedAccount
          => OnlyTouches(accounts[Head(pending).account].streamId)]_vars

\* Both streams hold events, a read-model record and a cache entry, and the
\* first has a snapshot: the second was loaded, appended to and projected
\* beside it.
C29_Witness ==
  /\ \A s \in StreamIds : cache[s].has /\ db[s].has
  /\ snapshots[StreamOrder[1]].has
  /\ Len(EventsOf(streams, StreamOrder[1])) = 2
  /\ Len(EventsOf(streams, StreamOrder[2])) = 1
  /\ db[StreamOrder[2]].lastProcessedSeq = 1

\* C30: every stored snapshot has a lastSeqNum that is a positive multiple of
\* SNAPSHOT_THRESHOLD and at most the version of its stream, and a state that
\* is the left fold of the stream's events 1..lastSeqNum.
C30_SnapshotsMatchTheLedger ==
  \A s \in StreamIds :
    snapshots[s].has
      => LET n == snapshots[s].lastSeqNum
         IN /\ n > 0
            /\ n % config.SNAPSHOT_THRESHOLD = 0
            /\ n <= VersionOf(EventsOf(streams, s))
            /\ heap[snapshots[s].state] = ReplayedState(s, n)

\* The projection of the events 1..k, from the default record {balance 0,
\* status Closed}: the switch of applyUpdate applied once per event in order.
RECURSIVE ProjectionFold(_, _)
ProjectionFold(events, k) ==
  IF k = 0 THEN NoRecord
  ELSE Projection(ProjectionFold(events, k - 1), events[k].type, events[k].data)

\* C31: a read-model record with lastProcessedSeq = k > 0 has the balance and
\* status that the projection of the store's events 1..k of its stream gives:
\* no committed event with seqNum <= k is missing from the record.
C31_RecordIsProjectionOfLedger ==
  \A s \in StreamIds :
    LET k == db[s].lastProcessedSeq
        events == EventsOf(streams, s)
    IN k > 0
         => /\ k <= Len(events)
            /\ db[s].balance = ProjectionFold(events, k).balance
            /\ db[s].status = ProjectionFold(events, k).status

\* The messages handed to the broker for a stream, in the order of the calls
\* of publish.
HandedOver(msgs, streamId) ==
  SelectSeq(msgs, LAMBDA m : JsonParse(m).streamId = streamId)

\* C32: with the publisher initialized, every event is handed to the broker
\* in the step that appends it and never again, so the messages of a stream
\* are its events appended since, once each and in strictly increasing
\* seqNum order, also with several commands suspended at the publish await.
C32_PublishedOnceInOrder ==
  [][/\ channel = "open"
          => \A s \in StreamIds :
               EventsOf(streams', s) # EventsOf(streams, s)
                 => /\ Len(published') = Len(published) + 1
                    /\ JsonParse(Last(published')) = Last(EventsOf(streams', s))
     /\ published' # published
          => /\ Len(published') = Len(published) + 1
             /\ SubSeq(published', 1, Len(published)) = published
             /\ LET event == JsonParse(Last(published'))
                    before == EventsOf(streams, event.streamId)
                IN EventsOf(streams', event.streamId) = Append(before, event)
     /\ \A s \in StreamIds :
          LET handed == HandedOver(published', s)
          IN \A i, j \in 1 .. Len(handed) :
               i < j => JsonParse(handed[i]).seqNum < JsonParse(handed[j]).seqNum]_vars

\* Two commands of two instances of one stream are suspended at the publish
\* await, and both their events have been handed over.
C32_Witness ==
  /\ Len(pending) = 2
  /\ pending[1].account # pending[2].account
  /\ accounts[pending[1].account].streamId = accounts[pending[2].account].streamId
  /\ Len(HandedOver(published, accounts[pending[1].account].streamId)) >= 2

\* C33: no overdraft.  The balance a full replay of a stream's events gives
\* is never negative, whatever instances of the stream the commands ran on.
C33_NoOverdraft ==
  \A s \in StreamIds :
    ReplayedState(s, Len(EventsOf(streams, s))).balance >= 0

\* The errors a command throws before it calls save.
ValidationErrors == {"Already active", "Account closed", "Insufficient funds"}

\* The step appends nothing to any stream.
AppendsNothing ==
  \A s \in StreamIds : EventsOf(streams', s) = EventsOf(streams, s)

C35_OpenedFirstAndOnlyOnce ==
  [][/\ \A s \in StreamIds :
          \A i \in 1 .. Len(EventsOf(streams', s)) :
            LET event == EventsOf(streams', s)[i]
            IN /\ event.seqNum = i
               /\ (event.type = "AccountOpened") <=> (i = 1)
     /\ \A s \in StreamIds :
          ReplayedState(s, Len(EventsOf(streams, s))).status = "Active"
            => ReplayedState(s, Len(EventsOf(streams, s)))'.status = "Active"
     /\ \A a \in AccountIds :
          (accounts[a].live /\ heap[accounts[a].state].status = "Active")
            => heap'[accounts'[a].state].status = "Active"]_vars

\* A stream holds three events of two instances, one of them refused a second
\* openAccount, and two commands are suspended at the publish await.
C35_Witness ==
  /\ ret.outcome = "Already active"
  /\ Len(pending) = 2
  /\ pending[1].account # pending[2].account
  /\ \E s \in StreamIds : Len(EventsOf(streams, s)) = 3

\* C36: while no entry is evicted, every call of getCachedAccount for a
\* stream returns the same instance, calls that overlap the first load()
\* included: no two instances it has returned are of one stream, and no command
\* on an instance it returned ends with the concurrency conflict.
C36_OneInstancePerStream ==
  /\ \A a, b \in AccountIds :
       (a # b /\ HandedOut(a) /\ HandedOut(b))
         => accounts[a].streamId # accounts[b].streamId
  /\ ret.outcome # "Concurrency Conflict"

\* C37: the entry of the most recent set(streamId, aggregate), made at time
\* T, is returned by get(streamId) until T + TTL: no timer callback removes an
\* entry before the time to live of that entry has passed.
C37_EntryLivesItsTTL ==
  [][\A t \in timers :
       (Evict(t) /\ cache[t.streamId].has)
         => clock >= cache[t.streamId].setAt + TTL]_vars

\* C38: a call of applyUpdate that throws while projecting the event leaves
\* the whole read model, the record of its id included, exactly as it was:
\* status, balance and lastProcessedSeq are those before the call.
C38_FailedUpdateLeavesRecord ==
  [][\A id \in StreamIds, t \in AppliedTypes, n \in SeqArgs :
       \A d \in DirectData(t) :
         (DirectApplyUpdate(id, t, d, n) /\ ret'.outcome = "TypeError")
           => db' = db]_vars

\* C39: applyUpdate with a seqNum above the record's lastProcessedSeq and an
\* event type that is none of AccountOpened, MoneyDeposited, MoneyWithdrawn
\* throws nothing, keeps balance and status (0 and Closed for an id without a
\* record), stores the record and sets its lastProcessedSeq to seqNum; and
\* applyEventToState returns a state with the same balance and status for an
\* event of such a type.
C39_UnknownTypeOnlyAdvances ==
  [][\A id \in StreamIds, n \in SeqArgs :
       \A d \in DirectData(OtherType) :
         ( /\ n > db[id].lastProcessedSeq
           /\ DirectApplyUpdate(id, OtherType, d, n) )
         => /\ ret'.outcome = ""
            /\ db'[id] = [db[id] EXCEPT !.has = TRUE, !.lastProcessedSeq = n]
            /\ \A x \in StreamIds \ {id} : db'[x] = db[x]
            /\ LET state == [balance |-> db[id].balance, status |-> db[id].status]
               IN ApplyEventToState(state, NewEvent(id, OtherType, d, n)) = state]_vars

\* A record that an event of an unknown type has created: the one event
\* applied to it has left it at balance 0 and Closed, and another record holds
\* a balance.
C39_Witness ==
  \E id, x \in StreamIds :
    /\ db[id].has
    /\ db[id].lastProcessedSeq = 1
    /\ db[id].balance = 0
    /\ db[id].status = "Closed"
    /\ db[x].has
    /\ db[x].balance # 0

====
